---- MODULE Spec2Model ----
(***************************************************************************)
(* Model of the FAO-56 irrigation auditor.                                 *)
(*                                                                         *)
(*   irrigation_app.py    the Streamlit dashboard: a cached weather fetch  *)
(*                        with retry and backoff, the water balance, the   *)
(*                        pump time and the status of the reference day.   *)
(*   irrigation_engine.py the command-line report: one request, the water  *)
(*                        balance, a printed table.                        *)
(*                                                                         *)
(* Numbers are fixed point, so that every comparison is exact:             *)
(*   ETo and rain           tenths of a millimetre     (5.0 mm  = 50)      *)
(*   Kc                     tenths                     (1.1     = 11)      *)
(*   crop need, irrigation  hundredths of a millimetre (3.5 mm  = 350)     *)
(*   field size             tenths of an acre          (1.0 ac  = 10)      *)
(*   pump capacity          litres per minute                              *)
(*   pump hours             an exact fraction num/den, or inf, -inf, nan   *)
(*   time                   seconds                                        *)
(***************************************************************************)
EXTENDS Integers, Sequences, FiniteSets, TLC

VARIABLES
    pc,        \* position of the dashboard script: "idle", "fetch", "render"
    cfg,       \* the sidebar inputs of the current run: coord, kc, cap, size
    attempt,   \* loop variable of the retry loop (line 88)
    log,       \* events of the current fetch: requests and sleeps, in order
    resp,      \* the body of the response that was parsed, if any
    df,        \* what get_weather_data_safe returned to the main logic
    cache,     \* st.cache_data store: coordinate -> entry
    prior,     \* cache[coord] as it was when the current fetch was made
    ui,        \* what the current run put on the page
    runs,      \* button presses so far
    report     \* what irrigation_engine.py printed

vars == <<pc, cfg, attempt, log, resp, df, cache, prior, ui, runs, report>>

----------------------------------------------------------------------------
(* Bounds of the model *)

\* Longest daily array a response carries (the provider sends 7).
MaxLen == 3

\* Button presses in one session.
MaxRuns == 2

----------------------------------------------------------------------------
(* Program constants *)

\* Faulty variant: one attempt too many.
MaxAttemptsPlusOne == 3 + 1

\* range(3): the retry loop makes at most three requests.
MaxAttempts == 3

\* @st.cache_data(ttl=3600)
TTL == 3600

\* 4046.86 square metres per acre is 202343 / 50.
AcreNum == 202343
AcreDen == 50

\* fillna(3.5), in tenths of a millimetre.
DefaultETo == 35

\* df.iloc[2]: the reference day.
TodayIndex == 2

\* A JSON null in a daily array, and the float NaN it becomes in a column.
Null == 0 - 99999
NaN == 0 - 88888

----------------------------------------------------------------------------
(* Inputs *)

\* The (lat, lon) of two schemes of the sidebar, in thousandths of a degree.
Coords == { [lat |-> 10866, lon |-> 0 - 1166], [lat |-> 10850, lon |-> 0 - 850] }

\* Kc of the crop table (or the default 1.0), in tenths.
KcValues == {8, 10, 11}


\* What one entry of a daily array can be: a number or null.
EtoValues == {Null, 0 - 10, 20, 50}
RainValues == {Null, 0 - 5, 20}

\* A response body that decodes and has its keys: the two daily arrays,
\* aligned by date.
BodiesOfLen(n) == { [eto |-> e, rain |-> r] : e \in [1..n -> EtoValues], r \in [1..n -> RainValues] }
AllBodies == UNION { BodiesOfLen(n) : n \in 0..MaxLen }

\* The bodies the session model draws from: no days, all null, and a
\* reference day whose rain covers the crop need.
SessionBodies ==
    { [eto |-> <<>>, rain |-> <<>>],
      [eto |-> <<Null, Null, Null>>, rain |-> <<Null, Null, Null>>],
      [eto |-> <<50, 50, 20>>, rain |-> <<0, 0, 20>>] }

\* The pump settings the session model draws from: the defaults, and a
\* zero or negative capacity or field size.
SessionPumps ==
    { [cap |-> 200, size |-> 10], [cap |-> 0, size |-> 10], [cap |-> 0 - 200, size |-> 10],
      [cap |-> 200, size |-> 0], [cap |-> 200, size |-> 0 - 10] }

\* How a request can fail.
\* A ConnectionError and a 5xx take the same path as these two.
TransientKinds == {"timeout", "http429"}
ClientErrorKinds == {"http404"}
MalformedKinds == {"undecodable", "missing_keys"}

----------------------------------------------------------------------------
(* Float arithmetic of a DataFrame column: NaN propagates *)

FMul(a, b) == IF a = NaN \/ b = NaN THEN NaN ELSE a * b
FSub(a, b) == IF a = NaN \/ b = NaN THEN NaN ELSE a - b

\* Series.clip(lower=0): NaN stays NaN.
ClipLower0(x) == IF x = NaN THEN NaN ELSE IF x < 0 THEN 0 ELSE x

Max0(x) == IF x < 0 THEN 0 ELSE x

----------------------------------------------------------------------------
(* Weather cleaning, lines 99-110 *)

\* pd.to_numeric(errors='coerce'): null becomes NaN.
ToNumeric(x) == IF x = Null THEN NaN ELSE x

Known(s, i) == s[i] # NaN
PrevKnown(s, i) == { j \in 1..(i - 1) : Known(s, j) }
NextKnown(s, i) == { j \in (i + 1)..Len(s) : Known(s, j) }
MaxOf(S) == CHOOSE x \in S : \A y \in S : y <= x
MinOf(S) == CHOOSE x \in S : \A y \in S : x <= y

\* Series.interpolate(): linear over equally spaced rows, forward only.  A
\* gap after the last known value takes that value; a gap before the first
\* known value stays NaN.
InterpolateAt(s, i) ==
    IF Known(s, i) THEN s[i]
    ELSE IF PrevKnown(s, i) = {} THEN NaN
    ELSE LET p == MaxOf(PrevKnown(s, i))
         IN  IF NextKnown(s, i) = {} THEN s[p]
             ELSE LET n == MinOf(NextKnown(s, i))
                  IN  s[p] + ((s[n] - s[p]) * (i - p)) \div (n - p)

Interpolate(s) == [i \in 1..Len(s) |-> InterpolateAt(s, i)]

FillNa(s, d) == [i \in 1..Len(s) |-> IF s[i] = NaN THEN d ELSE s[i]]

CleanETo(arr) == FillNa(Interpolate([i \in 1..Len(arr) |-> ToNumeric(arr[i])]), DefaultETo)
CleanRain(arr) == FillNa([i \in 1..Len(arr) |-> ToNumeric(arr[i])], 0)

\* The DataFrame the fetch returns for a body.
ParseBody(body) ==
    LET e == CleanETo(body.eto)
        r == CleanRain(body.rain)
    IN  [i \in 1..Len(body.eto) |-> [eto |-> e[i], rain |-> r[i]]]

\* pd.DataFrame(): what the failed fetch returns; df.empty.
EmptyFrame == <<>>

\* Faulty variant: the guard of line 131 lets every frame through.
NeverEmpty(d) == FALSE

IsEmpty(d) == Len(d) = 0

----------------------------------------------------------------------------
(* Water balance, lines 134-139 *)

\* df['ETo'] * float(kc), in hundredths of a millimetre.
CropWaterNeed(eto, kc) == FMul(eto, kc)

\* (Crop_Water_Need - Rain).clip(lower=0); rain (tenths) in hundredths.
IrrigationReq(need, rain) == ClipLower0(FSub(need, FMul(rain, 10)))

\* Irrigation_Req * 4046.86 * field_size, in litres, as a fraction.
TotalLiters(irr, size) == [num |-> irr * size * AcreNum, den |-> 100 * 10 * AcreDen]

\* total_liters / (int(pump_capacity) * 60).  Float division by zero gives
\* inf, -inf or nan and raises nothing.
PumpHours(irr, size, cap) ==
    LET l == TotalLiters(irr, size)
    IN  IF cap = 0
        THEN [kind |-> IF l.num > 0 THEN "inf" ELSE IF l.num < 0 THEN "-inf" ELSE "nan",
              num |-> 0, den |-> 1]
        ELSE IF cap > 0
        THEN [kind |-> "fin", num |-> l.num, den |-> l.den * cap * 60]
        ELSE [kind |-> "fin", num |-> 0 - l.num, den |-> l.den * (0 - cap) * 60]

Balance(d, kc, size, cap) ==
    [i \in 1..Len(d) |->
        LET need == CropWaterNeed(d[i].eto, kc)
            irr == IrrigationReq(need, d[i].rain)
        IN  [eto |-> d[i].eto, rain |-> d[i].rain, need |-> need, irr |-> irr,
             pump |-> PumpHours(irr, size, cap)]]

\* int(x) of a finite float: towards zero.
Trunc(num, den) == IF num >= 0 THEN num \div den ELSE 0 - ((0 - num) \div den)

\* hrs = int(today['Pump_Hours'])
PumpWholeHours(p) == Trunc(p.num, p.den)

\* mins = int((today['Pump_Hours'] % 1) * 60); x % 1 is in [0, 1).
\* Faulty variant: minutes rounded to the nearest (half to even) instead of cut.
PumpMinutesRounded(p) ==
    LET rem == p.num % p.den
        unit == p.den \div 60
        q == rem \div unit
        r == rem % unit
    IN  IF 2 * r > unit \/ (2 * r = unit /\ q % 2 = 1) THEN q + 1 ELSE q

\* The denominator of a pump time is a multiple of 60, so frac * 60 is
\* (num mod den) / (den / 60).
PumpMinutes(p) == (p.num % p.den) \div (p.den \div 60)

\* int(total_liters.iloc[2])
WholeLiters(l) == Trunc(l.num, l.den)

----------------------------------------------------------------------------
(* State *)

\* The sidebar as it is before anything is entered (lines 32, 55, 78, 79).
DefaultCfg == [coord |-> [lat |-> 10866, lon |-> 0 - 1166], kc |-> 10, cap |-> 200, size |-> 10]

NoEntry == [present |-> FALSE, frame |-> EmptyFrame, advisory |-> FALSE, age |-> 0, calls |-> 0]

NoPump == [kind |-> "none", num |-> 0, den |-> 1]

BlankUi ==
    [advisory |-> FALSE,     \* st.error("Weather Satellite is busy...")
     raised |-> FALSE,       \* an exception left the script
     computed |-> <<>>,      \* the rows of lines 134-139
     shown |-> 0,            \* metrics on the page, col1..col4
     pump |-> NoPump,        \* today's Pump_Hours
     hrs |-> 0, mins |-> 0,  \* "Pump Runtime"
     status |-> "none",      \* the recommendation
     liters |-> 0,           \* "Apply ... Liters"
     calcError |-> FALSE]    \* st.error("Calculation Error: ...")

NoReport == [state |-> "none", rows |-> <<>>]

NoBody == [eto |-> <<>>, rain |-> <<>>]

Request(kind) == [ev |-> "request", kind |-> kind, secs |-> 0]
Sleep(secs) == [ev |-> "sleep", kind |-> "", secs |-> secs]

Calls(l) == Cardinality({ i \in 1..Len(l) : l[i].ev = "request" })

Init ==
    /\ pc = "idle"
    /\ cfg = DefaultCfg
    /\ attempt = 0
    /\ log = <<>>
    /\ resp = NoBody
    /\ df = EmptyFrame
    /\ cache = [c \in Coords |-> NoEntry]
    /\ prior = NoEntry
    /\ ui = BlankUi
    /\ runs = 0
    /\ report = NoReport

----------------------------------------------------------------------------
(* The cache of line 82 *)

\* Faulty variant: no entry is ever served.
CacheNeverLive(e) == FALSE

\* An entry is served until it is ttl seconds old.
CacheLive(e) == e.present /\ e.age < TTL

Older(e, secs) ==
    IF e.present THEN [e EXCEPT !.age = IF e.age + secs >= TTL THEN TTL ELSE e.age + secs]
    ELSE e

Elapse(ch, secs) == [c \in Coords |-> Older(ch[c], secs)]

\* Faulty variant: the empty frame of a failed fetch is not stored.
CacheStoreUnlessEmpty(ch, c, frame, advisory, calls) ==
    IF frame = <<>> THEN ch
    ELSE [ch EXCEPT ![c] = [present |-> TRUE, frame |-> frame, advisory |-> advisory,
                            age |-> 0, calls |-> calls]]

\* What the decorator stores when the function returns: the value and the
\* st.error it showed, which a hit replays.  calls records how many requests
\* the storing fetch made.
CacheStore(ch, c, frame, advisory, calls) ==
    [ch EXCEPT ![c] = [present |-> TRUE, frame |-> frame, advisory |-> advisory,
                       age |-> 0, calls |-> calls]]

\* Faulty variant: the backoff starts at two seconds.
BackoffFromTwo(a) == 2 ^ (a + 1)

\* time.sleep(2 ** attempt)
Backoff(a) == 2 ^ a

----------------------------------------------------------------------------
(* irrigation_app.py *)

\* The button is pressed: line 129 calls the cached function.  A live entry
\* is returned without running the function.
RunAudit(c, kc, cap, size) ==
    /\ pc = "idle"
    /\ runs < MaxRuns
    /\ runs' = runs + 1
    /\ cfg' = [coord |-> c, kc |-> kc, cap |-> cap, size |-> size]
    /\ attempt' = 0
    /\ log' = <<>>
    /\ resp' = NoBody
    /\ prior' = cache[c]
    /\ IF CacheLive(cache[c])
       THEN /\ df' = cache[c].frame
            /\ ui' = [BlankUi EXCEPT !.advisory = cache[c].advisory]
            /\ pc' = "render"
       ELSE /\ df' = EmptyFrame
            /\ ui' = BlankUi
            /\ pc' = "fetch"
    /\ UNCHANGED <<cache, report>>

\* Lines 90-112: the request succeeds, the body decodes and has its keys.
RequestSucceeds(body) ==
    /\ pc = "fetch"
    /\ log' = Append(log, Request("ok"))
    /\ resp' = body
    /\ df' = ParseBody(body)
    /\ cache' = CacheStore(cache, cfg.coord, ParseBody(body), FALSE, Calls(log) + 1)
    /\ pc' = "render"
    /\ UNCHANGED <<cfg, attempt, prior, ui, runs, report>>

\* Lines 114-121: a RequestException is caught; sleep, then the next attempt,
\* or after the last one the advisory and the empty frame.
Retry(kind) ==
    /\ log' = log \o <<Request(kind), Sleep(Backoff(attempt))>>
    /\ attempt' = attempt + 1
    /\ IF attempt + 1 < MaxAttempts
       THEN /\ cache' = Elapse(cache, Backoff(attempt))
            /\ UNCHANGED <<df, ui, pc>>
       ELSE /\ df' = EmptyFrame
            /\ ui' = [ui EXCEPT !.advisory = TRUE]
            /\ cache' = CacheStore(Elapse(cache, Backoff(attempt)), cfg.coord,
                                   EmptyFrame, TRUE, Calls(log) + 1)
            /\ pc' = "render"
    /\ UNCHANGED <<cfg, resp, prior, runs, report>>

\* An exception that is no RequestException leaves the function and, line 129
\* being outside the try of line 132, the script.  Nothing is cached.
Escape(kind) ==
    /\ log' = Append(log, Request(kind))
    /\ ui' = [ui EXCEPT !.raised = TRUE]
    /\ pc' = "idle"
    /\ UNCHANGED <<cfg, attempt, resp, df, cache, prior, runs, report>>

\* Timeout, ConnectionError, or raise_for_status() on 429 or 5xx.
RequestFailsTransient(kind) ==
    /\ pc = "fetch"
    /\ Retry(kind)

\* raise_for_status() on a 4xx other than 429 raises HTTPError, which is a
\* RequestException too.
RequestFailsClient(kind) ==
    /\ pc = "fetch"
    /\ Retry(kind)

\* response.json() on an undecodable body raises a RequestException
\* (requests 2.27 and later) or a plain ValueError (earlier); a missing key
\* raises KeyError.
RequestMalformed(kind, caught) ==
    /\ pc = "fetch"
    /\ IF kind = "undecodable" /\ caught THEN Retry(kind) ELSE Escape(kind)

\* Lines 131-210.
Render ==
    /\ pc = "render"
    /\ pc' = "idle"
    /\ IF IsEmpty(df)
       THEN ui' = ui
       ELSE LET bal == Balance(df, cfg.kc, cfg.size, cfg.cap)
                u1 == [ui EXCEPT !.computed = bal]
            IN  IF Len(bal) <= TodayIndex
                THEN ui' = [u1 EXCEPT !.calcError = TRUE]
                ELSE LET today == bal[TodayIndex + 1]
                         u3 == [u1 EXCEPT !.shown = 3, !.pump = today.pump]
                     IN  IF today.pump.kind # "fin"
                         THEN ui' = [u3 EXCEPT !.calcError = TRUE]
                         ELSE ui' = [u3 EXCEPT
                                 !.shown = 4,
                                 !.hrs = PumpWholeHours(today.pump),
                                 !.mins = PumpMinutes(today.pump),
                                 !.status = IF today.irr > 0 THEN "WATER_STRESS" ELSE "ADEQUATE",
                                 !.liters = IF today.irr > 0
                                            THEN WholeLiters(TotalLiters(today.irr, cfg.size))
                                            ELSE 0]
    /\ UNCHANGED <<cfg, attempt, log, resp, df, cache, prior, runs, report>>

\* Time passes between two button presses.
TickSteps == {1800}
Tick(secs) ==
    /\ pc = "idle"
    /\ cache' = Elapse(cache, secs)
    /\ UNCHANGED <<pc, cfg, attempt, log, resp, df, prior, ui, runs, report>>

Next ==
    \/ \E c \in Coords, p \in SessionPumps : RunAudit(c, DefaultCfg.kc, p.cap, p.size)
    \/ \E body \in SessionBodies : RequestSucceeds(body)
    \/ \E kind \in TransientKinds : RequestFailsTransient(kind)
    \/ \E kind \in ClientErrorKinds : RequestFailsClient(kind)
    \/ \E kind \in MalformedKinds, caught \in BOOLEAN : RequestMalformed(kind, caught)
    \/ Render
    \/ \E secs \in TickSteps : Tick(secs)

Spec == Init /\ [][Next]_vars

----------------------------------------------------------------------------
(* irrigation_engine.py *)

\* CROPS["Maize"]["kc"] is 1.1.
EngineKc == 11

\* pd.DataFrame() of a list: a list of nothing but None makes a column of
\* objects, any other list a column of floats in which None is NaN.
ObjectColumn(arr) == Len(arr) > 0 /\ \A i \in 1..Len(arr) : arr[i] = Null

\* Lines 52-58.  No cleaning comes before them.
EngineRows(body) ==
    [i \in 1..Len(body.eto) |->
        LET eto == ToNumeric(body.eto[i])
            rain == ToNumeric(body.rain[i])
            need == FMul(eto, EngineKc)
        IN  [eto |-> eto, rain |-> rain, need |-> need,
             irr |-> ClipLower0(FSub(need, FMul(rain, 10)))]]

\* Lines 35-64 and 90-91: the request is answered with a body that has its
\* keys.  Arithmetic on a column of None raises TypeError, which line 90
\* catches.
EngineAudit(body) ==
    /\ pc = "engine"
    /\ pc' = "engine_done"
    /\ resp' = body
    /\ report' = IF ObjectColumn(body.eto) \/ ObjectColumn(body.rain)
                 THEN [state |-> "error", rows |-> <<>>]
                 ELSE [state |-> "table", rows |-> EngineRows(body)]
    /\ UNCHANGED <<cfg, attempt, log, df, cache, prior, ui, runs>>

\* Lines 90-91: the request, the decoding or a key lookup raises.
EngineFails ==
    /\ pc = "engine"
    /\ pc' = "engine_done"
    /\ report' = [state |-> "error", rows |-> <<>>]
    /\ UNCHANGED <<cfg, attempt, log, resp, df, cache, prior, ui, runs>>

----------------------------------------------------------------------------
(* The data model: one run of either script over every body up to MaxLen *)
(* days, with the default pump settings.                                   *)

InitData ==
    /\ pc \in {"idle", "engine"}
    /\ cfg = DefaultCfg
    /\ attempt = 0
    /\ log = <<>>
    /\ resp = NoBody
    /\ df = EmptyFrame
    /\ cache = [c \in Coords |-> NoEntry]
    /\ prior = NoEntry
    /\ ui = BlankUi
    /\ runs = 0
    /\ report = NoReport

NextData ==
    \/ \E kc \in KcValues :
            runs = 0 /\ RunAudit(DefaultCfg.coord, kc, DefaultCfg.cap, DefaultCfg.size)
    \/ pc = "fetch" /\ \E body \in AllBodies : RequestSucceeds(body)
    \/ Render
    \/ pc = "engine" /\ \E body \in AllBodies : EngineAudit(body)
    \/ EngineFails

SpecData == InitData /\ [][NextData]_vars

----------------------------------------------------------------------------
(* Properties *)

IsRequest(e) == e.ev = "request"
IsSleep(e) == e.ev = "sleep"
Requests(l) == SelectSeq(l, IsRequest)
Sleeps(l) == SelectSeq(l, IsSleep)
NonRetryableKinds == ClientErrorKinds \cup MalformedKinds

\* The run went through the main logic to its end (no exception left the
\* fetch).
Rendered == pc = "idle" /\ runs > 0 /\ ~ui.raised

\* C1: when the first k-1 requests of a fetch fail with a transient error and
\* the k-th succeeds (k in 1..3), the fetch returns the series parsed from the
\* k-th response after exactly k-1 delays of 1, 2, ... 2^(k-2) seconds, each
\* right after the request that failed, and none after the successful one.
C1_RetryThenSuccess ==
    LET rq == Requests(log)
        sl == Sleeps(log)
        k == Len(rq)
    IN  (/\ k >= 1
         /\ rq[k].kind = "ok"
         /\ \A i \in 1..(k - 1) : rq[i].kind \in TransientKinds)
        => /\ k <= 3
           /\ Len(sl) = k - 1
           /\ Len(log) = 2 * k - 1
           /\ \A i \in 1..(k - 1) :
                /\ log[2 * i - 1].ev = "request"
                /\ log[2 * i] = Sleep(2 ^ (i - 1))
           /\ log[Len(log)].ev = "request"
           /\ pc # "fetch"
           /\ ~ui.raised
           /\ Len(df) = Len(resp.eto)
           /\ df = ParseBody(resp)

\* Two transient failures, then a body with days: two delays, 1 s and 2 s.
C1_Witness ==
    /\ pc = "render"
    /\ log = <<Request("timeout"), Sleep(1), Request("http429"), Sleep(2), Request("ok")>>
    /\ Len(df) = 3

\* C2: when every request of a fetch fails with a transient error, the fetch
\* goes on until it has made exactly 3 requests, makes no 4th, raises nothing
\* and returns the empty frame with the advisory shown.
C2_ExhaustedGivesEmpty ==
    LET rq == Requests(log)
    IN  (rq # <<>> /\ \A i \in 1..Len(rq) : rq[i].kind \in TransientKinds)
        => /\ Len(rq) <= 3
           /\ Len(rq) < 3 => pc = "fetch"
           /\ Len(rq) = 3 => /\ pc # "fetch"
                             /\ df = <<>>
                             /\ ui.advisory
                             /\ ~ui.raised

C2_Witness ==
    /\ pc = "render"
    /\ Len(Requests(log)) = 3
    /\ \A i \in 1..3 : Requests(log)[i].kind \in TransientKinds
    /\ df = <<>>
    /\ ui.advisory

\* C3 (as claimed): a non-retryable error (a 4xx other than 429, an
\* undecodable body, missing keys) ends the fetch at once: it is the last
\* event of the fetch, no delay and no request follows it, and the fetch
\* raises instead of returning.
C3_NonRetryableFailsAtOnce ==
    \A i \in 1..Len(log) :
        (log[i].ev = "request" /\ log[i].kind \in NonRetryableKinds)
        => /\ i = Len(log)
           /\ pc # "fetch"
           /\ ui.raised

\* C4 (as claimed): a fetch made while the entry an earlier fetch of the same
\* coordinate stored is inside the expiry window: the two fetches together
\* make at most one network call, and the second returns the cached series.
C4_AtMostOneCallInTotal ==
    (runs > 0 /\ prior.present /\ prior.age < 3600)
    => /\ prior.calls + Len(Requests(log)) <= 1
       /\ pc # "fetch"
       /\ df = prior.frame

\* C4 (amended): a fetch made while the entry an earlier fetch of the same
\* coordinate stored is inside the expiry window makes no network call and
\* returns the stored series; the earlier fetch made one call per attempt,
\* so the two together make at most 3.
C4_SecondFetchMakesNoCall ==
    (runs > 0 /\ prior.present /\ prior.age < 3600)
    => /\ log = <<>>
       /\ pc # "fetch"
       /\ ~ui.raised
       /\ df = prior.frame
       /\ prior.calls >= 1
       /\ prior.calls + Len(Requests(log)) <= 3

\* The second fetch of a coordinate, half an hour after a first one that
\* needed all three attempts' worth of calls to get its series.
C4_Witness ==
    /\ runs = 2
    /\ pc = "render"
    /\ prior.present
    /\ prior.age >= 1800
    /\ prior.age < 3600
    /\ prior.calls = 3
    /\ Len(prior.frame) = 3
    /\ df = prior.frame
    /\ log = <<>>

\* C5: when the fetch gives the main logic an empty frame, the run computes
\* no balance, reads no reference day, shows no metric, no pump time, no
\* status and no calculation error.
C5_EmptySuppressesDownstream ==
    (Rendered /\ df = <<>>)
    => /\ ui.computed = <<>>
       /\ ui.shown = 0
       /\ ui.pump = NoPump
       /\ ui.status = "none"
       /\ ~ui.calcError

\* A run whose fetch failed three times, gone through the main logic.
C5_Witness ==
    /\ Rendered
    /\ df = <<>>
    /\ ui.advisory
    /\ Len(Requests(log)) = 3

\* irrigation_need_mm == max(0, eto_mm * kc - rain_mm) and >= 0, for a row
\* whose irrigation need is irr.
BalanceHolds(row, kc) ==
    /\ row.irr # NaN
    /\ row.irr >= 0
    /\ (row.eto # NaN /\ row.rain # NaN) => row.irr = Max0(row.eto * kc - row.rain * 10)

\* C6 (as claimed): every row either script computes has an irrigation need
\* that is a number, is not negative and equals max(0, eto * kc - rain),
\* whatever the arrays held, nulls included.
C6_BalanceEverywhere ==
    /\ \A i \in 1..Len(ui.computed) : BalanceHolds(ui.computed[i], cfg.kc)
    /\ \A i \in 1..Len(report.rows) : BalanceHolds(report.rows[i], 11)

\* Whether entry i of a raw array lies between two numbers.
Between(arr, i) ==
    /\ \E j \in 1..(i - 1) : arr[j] # Null
    /\ \E j \in (i + 1)..Len(arr) : arr[j] # Null

\* Entry i of the cleaned column lies on the line through the nearest numbers
\* on either side of it in the raw array.
OnTheLine(arr, col, i) ==
    \E p \in 1..(i - 1), n \in (i + 1)..Len(arr) :
        /\ arr[p] # Null
        /\ arr[n] # Null
        /\ \A j \in (p + 1)..(n - 1) : arr[j] = Null
        /\ (col[i] - arr[p]) * (n - p) = (arr[n] - arr[p]) * (i - p)

\* C7 (as claimed): every day of a fetched series has ETo >= 0 and rain >= 0
\* and neither is missing; a null ETo between two numbers is interpolated
\* linearly, any other null ETo is 3.5, and a null rain is 0.
C7_CleanedSeries ==
    (log # <<>> /\ log[Len(log)].kind = "ok")
    => \A i \in 1..Len(df) :
          /\ df[i].eto # NaN
          /\ df[i].rain # NaN
          /\ df[i].eto >= 0
          /\ df[i].rain >= 0
          /\ resp.rain[i] = Null => df[i].rain = 0
          /\ resp.eto[i] = Null =>
                IF Between(resp.eto, i)
                THEN OnTheLine(resp.eto, [j \in 1..Len(df) |-> df[j].eto], i)
                ELSE df[i].eto = 35

\* The reference day's pump time was split and shown, and is not negative.
PumpTimeShown == Rendered /\ ui.shown = 4 /\ ui.pump.kind = "fin" /\ ui.pump.num >= 0

\* Whole minutes of the pump time, cut: the largest m with m/60 h <= pump time.
MinutesCut(p, m) ==
    /\ m * (p.den \div 60) <= p.num
    /\ p.num < (m + 1) * (p.den \div 60)

\* Whole minutes of the pump time, to the nearest: m/60 h is within half a
\* minute of the pump time.
MinutesNearest(p, m) ==
    LET unit == p.den \div 60
        d == p.num - m * unit
    IN  /\ d <= unit
        /\ 0 - unit <= d
        /\ 2 * d <= unit
        /\ 0 - unit <= 2 * d

\* C8 (as claimed): hours are floor(pump_hours) and minutes are
\* (pump_hours - hours) * 60 rounded to the nearest minute.
C8_MinutesRounded ==
    PumpTimeShown
    => /\ ui.hrs * ui.pump.den <= ui.pump.num
       /\ ui.pump.num < (ui.hrs + 1) * ui.pump.den
       /\ MinutesNearest(ui.pump, ui.hrs * 60 + ui.mins)

\* C8 (amended): hours are floor(pump_hours) and minutes are
\* floor((pump_hours - hours) * 60), between 0 and 59: the fraction of a
\* minute is dropped.
C8_MinutesCut ==
    PumpTimeShown
    => /\ ui.hrs * ui.pump.den <= ui.pump.num
       /\ ui.pump.num < (ui.hrs + 1) * ui.pump.den
       /\ ui.mins \in 0..59
       /\ MinutesCut(ui.pump, ui.hrs * 60 + ui.mins)

\* 3.5 mm on 1.0 acre with 200 L/min: 1.1803... h, shown as 1h 10m.
C8_Witness ==
    /\ PumpTimeShown
    /\ cfg.cap = 200
    /\ cfg.size = 10
    /\ ui.computed[3].irr = 350
    /\ ui.hrs = 1
    /\ ui.mins = 10

\* C9 (as claimed): with a series that has days and a pump capacity or field
\* size that is not positive, the run ends in a configuration error before
\* any metric or status, and no pump time that is infinite, NaN or negative
\* is computed.
C9_InvalidConfigRejected ==
    (Rendered /\ df # <<>> /\ (cfg.cap <= 0 \/ cfg.size <= 0))
    => /\ ui.calcError
       /\ ui.shown = 0
       /\ ui.status = "none"
       /\ \A i \in 1..Len(ui.computed) :
            /\ ui.computed[i].pump.kind = "fin"
            /\ ui.computed[i].pump.num >= 0

\* C10: the empty frame a failed fetch returns is stored like any series;
\* while that entry is less than an hour old a fetch of the coordinate
\* returns the empty frame and makes no request, and a fetch of the
\* coordinate that makes a request was made after the entry expired.
C10_FailureIsCached ==
    /\ (log # <<>> /\ log[Len(log)].ev = "sleep" /\ pc # "fetch")
       => /\ cache[cfg.coord].present
          /\ cache[cfg.coord].frame = <<>>
          /\ cache[cfg.coord].advisory
    /\ (runs > 0 /\ prior.present /\ prior.advisory)
       => /\ prior.frame = <<>>
          /\ prior.age < 3600 => (log = <<>> /\ pc # "fetch" /\ df = <<>>)
          /\ log # <<>> => prior.age >= 3600

\* A fetch served the empty frame of a failure half an hour old.
C10_Witness ==
    /\ runs = 2
    /\ pc = "render"
    /\ prior.present
    /\ prior.advisory
    /\ prior.age = 1800
    /\ log = <<>>
    /\ df = <<>>

====
